---------------------------- MODULE Spec2Model ----------------------------
(***************************************************************************)
(* A model of the Sentinel-2 super-resolution pipeline of                  *)
(* up42/s2-superresolution.  The repository holds three variants of the    *)
(* same pipeline:                                                          *)
(*   "script"  : src/s2_tiles_supres.py (module-level script)              *)
(*   "predict" : src/blocks/s2_superresolution/src/predict/                *)
(*               s2_tiles_supres.py (class Superresolution, run_model)     *)
(*   "block"   : src/src/s2_tiles_supres.py (class Superresolution, a      *)
(*               ProcessingBlock)                                          *)
(* The variable `variant` says which of them is running.                   *)
(*                                                                         *)
(* Strings are sequences of one-character strings, so that the regular     *)
(* expression of validate_description and the slicing of                   *)
(* get_band_short_name are computed, not assumed.                          *)
(***************************************************************************)
EXTENDS Integers, Sequences, FiniteSets, TLC

VARIABLES
    variant,        \* which of the three programs runs
    ds10,           \* the 10m raster: [width, height, transform, crs, descriptions]
    ds20,           \* the 20m raster
    ds60,           \* the 60m raster
    params,         \* the region-of-interest parameters
    pc,             \* the position of the run
    roi,            \* the result of area_of_interest: <<xmin, ymin, xmax, ymax, area>>
    select_bands,   \* the script's module-level candidate pool
    validated,      \* the results of validate for "10m", "20m", "60m"
    again,          \* the result of a second validate call on the raster just scanned
    band_description,   \* a band description handed to validate_description
    named,          \* what validate_description and get_band_short_name made of it
    data10,         \* the array data_final extracted from the 10m raster
    data20,         \* the array extracted from the 20m raster
    data60,         \* the array extracted from the 60m raster
    sr20,           \* the output of DSen2_20
    sr60,           \* the output of DSen2_60
    sr_final,       \* the concatenated model output
    validated_sr_final_bands,   \* the codes of the super-resolved bands
    out_dims,       \* the band count computed for the output raster
    profile,        \* the profile of the output raster
    written,        \* the bands written to the output raster, in order
    input_fc,       \* the features of the input collection handed to process
    inferred,       \* the features handed to the inference step so far
    raised,         \* the exception process ended with
    data_json,      \* the writes of data.json, in order
    world,          \* a projected point handed to the affine inversion of to_xy
    xy              \* the pixel the inversion returned for it

\* the state of the band naming functions, and of the extraction and the output
NameVars == <<band_description, named>>
RunVars == <<data10, data20, data60, sr20, sr60, sr_final,
             validated_sr_final_bands, out_dims, profile, written>>

\* the state of process, and of the affine inversion taken alone
ProcessVars == <<input_fc, inferred, raised, data_json>>
PixelVars == <<world, xy>>

vars == <<variant, ds10, ds20, ds60, params, pc, roi, select_bands, validated, again,
          band_description, named, data10, data20, data60, sr20, sr60, sr_final,
          validated_sr_final_bands, out_dims, profile, written,
          input_fc, inferred, raised, data_json, world, xy>>

(***************************************************************************)
(* Bounds of the model                                                     *)
(***************************************************************************)
MaxCoord == 6       \* pixel corner coordinates range over -1..MaxCoord
MaxDim == 7         \* raster widths and heights range over 1..MaxDim
MaxGeo == 3         \* longitudes and latitudes range over 0..MaxGeo (grid units)
MaxBands == 3       \* a band scene has at most MaxBands bands over its three rasters
MaxLabel == 3       \* a generated band label has at most MaxLabel characters
MaxDigits == 2      \* a generated wavelength has 1..MaxDigits digits
MaxFree == 3        \* a generated free-text description has at most MaxFree characters
MaxTiles == 2       \* the 10m raster of a run is 6*MaxTiles pixels wide and high

None == <<>>        \* an absent dictionary key / an unset name

\* no description has been handed to the naming functions
NoNames == band_description = None /\ named = None
\* nothing has been extracted, super-resolved or written
NoRun ==
    /\ data10 = None /\ data20 = None /\ data60 = None
    /\ sr20 = None /\ sr60 = None /\ sr_final = None
    /\ validated_sr_final_bands = None
    /\ out_dims = None
    /\ profile = None
    /\ written = None
\* process has not been called
NoProcess == input_fc = None /\ inferred = None /\ raised = None /\ data_json = None
\* no point has been handed to the inversion alone
NoPixels == world = None /\ xy = None

(***************************************************************************)
(* Python built-ins                                                        *)
(***************************************************************************)
Min2(a, b) == IF a <= b THEN a ELSE b
Max2(a, b) == IF a >= b THEN a ELSE b
\* min(a, b, c) and max(a, b, c)
Min3(a, b, c) == Min2(Min2(a, b), c)
Max3(a, b, c) == Max2(Max2(a, b), c)
\* int(n / d) for d > 0: true division, then truncation toward zero
IntTrunc(n, d) == IF n >= 0 THEN n \div d ELSE -((-n) \div d)
\* int(n / d) for any d # 0
IntTruncDiv(n, d) == IF d > 0 THEN IntTrunc(n, d) ELSE IntTrunc(-n, -d)
\* n // d, Python's floor division, for d > 0
FloorDiv(n, d) == n \div d

(***************************************************************************)
(* Floating point.  to_xy multiplies by det_inv = 1. / det instead of      *)
(* dividing.  Python floats are IEEE doubles; for integers n and det the   *)
(* product n * (1. / det) is computed here exactly as a double computes    *)
(* it: 1. / det is rounded to MantissaBits bits, the product is rounded    *)
(* again, and int() truncates.  Rounding can only move the result across   *)
(* an integer when n is a multiple of det, and then only downwards.        *)
(***************************************************************************)
MantissaBits == 53
Abs(n) == IF n < 0 THEN -n ELSE n
RECURSIVE BitLength(_)
BitLength(n) == IF n = 0 THEN 0 ELSE 1 + BitLength(n \div 2)
RECURSIVE IsPowerOfTwo(_)
IsPowerOfTwo(n) == n = 1 \/ (n > 1 /\ n % 2 = 0 /\ IsPowerOfTwo(n \div 2))
RECURSIVE Pow2(_)
Pow2(k) == IF k = 0 THEN 1 ELSE 2 * Pow2(k - 1)
\* 2^k mod n
RECURSIVE Pow2Mod(_, _)
Pow2Mod(k, n) == IF k = 0 THEN 1 % n ELSE (2 * Pow2Mod(k - 1, n)) % n
\* the double (det * q) * (1. / det) is below q, for det > 0 and q >= 0:
\* 1. / det was rounded down, by r / (det * 2^k) with r = 2^k mod det, and the
\* product q - q * r / 2^k is more than half a step below q
reciprocal_falls_short(det, q) ==
    /\ q > 0
    /\ ~IsPowerOfTwo(det)
    /\ LET k == MantissaBits - 1 + BitLength(det)
           r == Pow2Mod(k, det)
           half_step == BitLength(det) + BitLength(q) - 2
                        - (IF IsPowerOfTwo(q) THEN 1 ELSE 0)
       IN  /\ 2 * r < det
           /\ q * r > Pow2(half_step)
\* int(n * (1. / det)) for integers n and det # 0
int_times_reciprocal(n, det) ==
    IF n % Abs(det) # 0 THEN IntTruncDiv(n, det)
    ELSE LET q == IntTruncDiv(n, det)
         IN  IF reciprocal_falls_short(Abs(det), Abs(q))
             THEN (IF q > 0 THEN q - 1 ELSE q + 1)
             ELSE q


(***************************************************************************)
(* Strings                                                                 *)
(***************************************************************************)
Digit == {"0", "1", "2", "3", "4", "5", "6", "7", "8", "9"}

\* s[:n] for n >= 0
Prefix(s, n) == SubSeq(s, 1, Min2(n, Len(s)))
\* s.find(c): the 0-based index of the first c in s, -1 when there is none
Find(s, c) ==
    IF \E k \in 1..Len(s) : s[k] = c
    THEN (CHOOSE k \in 1..Len(s) : s[k] = c /\ \A j \in 1..(k - 1) : s[j] # c) - 1
    ELSE -1
\* whether the literal lit stands in s at the 1-based position i
LitAt(s, i, lit) ==
    /\ i + Len(lit) - 1 <= Len(s)
    /\ \A k \in 1..Len(lit) : s[i + k - 1] = lit[k]
\* the length of the longest run of digits of s that starts at position i
RECURSIVE DigitRun(_, _)
DigitRun(s, i) ==
    IF i <= Len(s) /\ s[i] \in Digit THEN 1 + DigitRun(s, i + 1) ELSE 0

\* re.split(",", s)
RECURSIVE Split(_, _)
Split(s, c) ==
    LET k == Find(s, c)
    IN  IF k = -1 THEN <<s>>
        ELSE <<SubSeq(s, 1, k)>> \o Split(SubSeq(s, k + 2, Len(s)), c)

\* the literal parts of the pattern "(.*?), central wavelength (\d+) nm"
PatCentral == <<",", " ", "c", "e", "n", "t", "r", "a", "l", " ", "w", "a", "v", "e", "l", "e", "n", "g", "t", "h", " ">>
PatNm == <<" ", "n", "m">>

\* re.match("(.*?), central wavelength (\d+) nm", s) with group 1 ending before
\* position i: group 1 may not hold a newline, the digits are taken greedily
\* (giving one back never helps: " nm" does not start with a digit)
MatchAt(s, i) ==
    LET j == i + Len(PatCentral)
        n == DigitRun(s, j)
    IN  /\ \A k \in 1..(i - 1) : s[k] # "\n"
        /\ LitAt(s, i, PatCentral)
        /\ n >= 1
        /\ LitAt(s, j + n, PatNm)

validate_description(description) ==
    IF \E i \in 1..Len(description) : MatchAt(description, i)
    THEN LET i == CHOOSE i \in 1..Len(description) :
                    /\ MatchAt(description, i)
                    /\ \A h \in 1..(i - 1) : ~MatchAt(description, h)
             j == i + Len(PatCentral)
             group1 == SubSeq(description, 1, i - 1)
             group2 == SubSeq(description, j, j + DigitRun(description, j) - 1)
         IN  group1 \o <<" ", "(">> \o group2 \o <<" ", "n", "m", ")">>
    ELSE description

\* get_band_short_name with a slip: the space is looked for before the comma
get_band_short_name_space_first(description) ==
    IF Find(description, " ") # -1
    THEN Prefix(description, Find(description, " "))
    ELSE IF Find(description, ",") # -1
         THEN Prefix(description, Find(description, ","))
         ELSE Prefix(description, 3)

get_band_short_name(description) ==
    IF Find(description, ",") # -1
    THEN Prefix(description, Find(description, ","))
    ELSE IF Find(description, " ") # -1
         THEN Prefix(description, Find(description, " "))
         ELSE Prefix(description, 3)

\* the catalog with a slip: B10 is listed between B9 and B11
input_select_bands_with_B10 ==
    <<
    "B", "1", ",",
    "B", "2", ",",
    "B", "3", ",",
    "B", "4", ",",
    "B", "5", ",",
    "B", "6", ",",
    "B", "7", ",",
    "B", "8", ",",
    "B", "8", "A", ",",
    "B", "9", ",",
    "B", "1", "0", ",",
    "B", "1", "1", ",",
    "B", "1", "2">>
\* "B1,B2,B3,B4,B5,B6,B7,B8,B8A,B9,B11,B12"
input_select_bands ==
    <<
    "B", "1", ",",
    "B", "2", ",",
    "B", "3", ",",
    "B", "4", ",",
    "B", "5", ",",
    "B", "6", ",",
    "B", "7", ",",
    "B", "8", ",",
    "B", "8", "A", ",",
    "B", "9", ",",
    "B", "1", "1", ",",
    "B", "1", "2">>
\* the script's pool when --run_60 is not given
input_select_bands_20 ==
    <<
    "B", "2", ",",
    "B", "3", ",",
    "B", "4", ",",
    "B", "5", ",",
    "B", "6", ",",
    "B", "7", ",",
    "B", "8", ",",
    "B", "8", "A", ",",
    "B", "1", "1", ",",
    "B", "1", "2">>

(***************************************************************************)
(* Rasters                                                                 *)
(***************************************************************************)
\* a band description as the Sentinel-2 driver writes it:
\* "<label>, central wavelength <nm> nm"
Desc(label, nm) == label \o PatCentral \o nm \o PatNm

D_B1 == Desc(<<"B", "1">>, <<"4", "4", "3">>)
D_B2 == Desc(<<"B", "2">>, <<"4", "9", "0">>)
D_B3 == Desc(<<"B", "3">>, <<"5", "6", "0">>)
D_B4 == Desc(<<"B", "4">>, <<"6", "6", "5">>)
D_B5 == Desc(<<"B", "5">>, <<"7", "0", "5">>)
D_B6 == Desc(<<"B", "6">>, <<"7", "4", "0">>)
D_B7 == Desc(<<"B", "7">>, <<"7", "8", "3">>)
D_B8 == Desc(<<"B", "8">>, <<"8", "4", "2">>)
D_B8A == Desc(<<"B", "8", "A">>, <<"8", "6", "5">>)
D_B9 == Desc(<<"B", "9">>, <<"9", "4", "5">>)
D_B10 == Desc(<<"B", "1", "0">>, <<"1", "3", "7", "5">>)
D_B11 == Desc(<<"B", "1", "1">>, <<"1", "6", "1", "0">>)
D_B12 == Desc(<<"B", "1", "2">>, <<"2", "1", "9", "0">>)

\* the band descriptions of a Sentinel-2 L1C product's three subdatasets
Desc10 == <<D_B4, D_B3, D_B2, D_B8>>
Desc20 == <<D_B5, D_B6, D_B7, D_B8A, D_B11, D_B12>>
Desc60 == <<D_B1, D_B9, D_B10>>

\* a north-up raster of the given pixel size whose upper left corner is at
\* (500, 100) in its projected coordinate system: (a, b, xoff, d, e, yoff)
Transform(pix) == <<pix, 0, 500, 0, -pix, 100>>

Raster(w, h, pix, descs) ==
    [width |-> w, height |-> h, transform |-> Transform(pix),
     crs |-> "epsg:32640", descriptions |-> descs]

\* data.count
count(data) == Len(data.descriptions)

(***************************************************************************)
(* Region of interest                                                      *)
(***************************************************************************)
\* get_max_min with a slip: x_max is left on the boundary (no - 1)
get_max_min_exclusive_max(x1, y1, x2, y2, data) ==
    LET cxmin == Max2(Min3(x1, x2, data.width - 1), 0)
        cxmax == Min2(Max3(x1, x2, 0), data.width - 1)
        cymin == Max2(Min3(y1, y2, data.height - 1), 0)
        cymax == Min2(Max3(y1, y2, 0), data.height - 1)
        tmxmin == IntTrunc(cxmin, 6) * 6
        tmxmax == IntTrunc(cxmax + 1, 6) * 6
        tmymin == IntTrunc(cymin, 6) * 6
        tmymax == IntTrunc(cymax + 1, 6) * 6 - 1
        area == (tmxmax - tmxmin + 1) * (tmymax - tmymin + 1)
    IN  <<tmxmin, tmymin, tmxmax, tmymax, area>>

\* get_max_min with a slip: x_max is clamped to width, not width - 1
get_max_min_clamp_width(x1, y1, x2, y2, data) ==
    LET cxmin == Max2(Min3(x1, x2, data.width - 1), 0)
        cxmax == Min2(Max3(x1, x2, 0), data.width)
        cymin == Max2(Min3(y1, y2, data.height - 1), 0)
        cymax == Min2(Max3(y1, y2, 0), data.height - 1)
        tmxmin == IntTrunc(cxmin, 6) * 6
        tmxmax == IntTrunc(cxmax + 1, 6) * 6 - 1
        tmymin == IntTrunc(cymin, 6) * 6
        tmymax == IntTrunc(cymax + 1, 6) * 6 - 1
        area == (tmxmax - tmxmin + 1) * (tmymax - tmymin + 1)
    IN  <<tmxmin, tmymin, tmxmax, tmymax, area>>

\* get_max_min with a slip: the maxima are rounded up to the next boundary
get_max_min_round_up(x1, y1, x2, y2, data) ==
    LET cxmin == Max2(Min3(x1, x2, data.width - 1), 0)
        cxmax == Min2(Max3(x1, x2, 0), data.width - 1)
        cymin == Max2(Min3(y1, y2, data.height - 1), 0)
        cymax == Min2(Max3(y1, y2, 0), data.height - 1)
        tmxmin == IntTrunc(cxmin, 6) * 6
        tmxmax == IntTrunc(cxmax + 6, 6) * 6 - 1
        tmymin == IntTrunc(cymin, 6) * 6
        tmymax == IntTrunc(cymax + 6, 6) * 6 - 1
        area == (tmxmax - tmxmin + 1) * (tmymax - tmymin + 1)
    IN  <<tmxmin, tmymin, tmxmax, tmymax, area>>

\* get_max_min with a slip: the area leaves out the + 1
get_max_min_area_exclusive(x1, y1, x2, y2, data) ==
    LET cxmin == Max2(Min3(x1, x2, data.width - 1), 0)
        cxmax == Min2(Max3(x1, x2, 0), data.width - 1)
        cymin == Max2(Min3(y1, y2, data.height - 1), 0)
        cymax == Min2(Max3(y1, y2, 0), data.height - 1)
        tmxmin == IntTrunc(cxmin, 6) * 6
        tmxmax == IntTrunc(cxmax + 1, 6) * 6 - 1
        tmymin == IntTrunc(cymin, 6) * 6
        tmymax == IntTrunc(cymax + 1, 6) * 6 - 1
        area == (tmxmax - tmxmin) * (tmymax - tmymin)
    IN  <<tmxmin, tmymin, tmxmax, tmymax, area>>

\* get_max_min with a slip: the minimum of x ignores the second corner
get_max_min_first_corner(x1, y1, x2, y2, data) ==
    LET cxmin == Max2(Min2(x1, data.width - 1), 0)
        cxmax == Min2(Max3(x1, x2, 0), data.width - 1)
        cymin == Max2(Min3(y1, y2, data.height - 1), 0)
        cymax == Min2(Max3(y1, y2, 0), data.height - 1)
        tmxmin == IntTrunc(cxmin, 6) * 6
        tmxmax == IntTrunc(cxmax + 1, 6) * 6 - 1
        tmymin == IntTrunc(cymin, 6) * 6
        tmymax == IntTrunc(cymax + 1, 6) * 6 - 1
        area == (tmxmax - tmxmin + 1) * (tmymax - tmymin + 1)
    IN  <<tmxmin, tmymin, tmxmax, tmymax, area>>

\* get_max_min with a slip: the maximum is snapped without the + 1
get_max_min_max_not_incremented(x1, y1, x2, y2, data) ==
    LET cxmin == Max2(Min3(x1, x2, data.width - 1), 0)
        cxmax == Min2(Max3(x1, x2, 0), data.width - 1)
        cymin == Max2(Min3(y1, y2, data.height - 1), 0)
        cymax == Min2(Max3(y1, y2, 0), data.height - 1)
        tmxmin == IntTrunc(cxmin, 6) * 6
        tmxmax == IntTrunc(cxmax, 6) * 6 - 1
        tmymin == IntTrunc(cymin, 6) * 6
        tmymax == IntTrunc(cymax, 6) * 6 - 1
        area == (tmxmax - tmxmin + 1) * (tmymax - tmymin + 1)
    IN  <<tmxmin, tmymin, tmxmax, tmymax, area>>

get_max_min(x1, y1, x2, y2, data) ==
    LET cxmin == Max2(Min3(x1, x2, data.width - 1), 0)
        cxmax == Min2(Max3(x1, x2, 0), data.width - 1)
        cymin == Max2(Min3(y1, y2, data.height - 1), 0)
        cymax == Min2(Max3(y1, y2, 0), data.height - 1)
        \* enlarge to the nearest 60 pixel boundary for the super-resolution
        tmxmin == IntTrunc(cxmin, 6) * 6
        tmxmax == IntTrunc(cxmax + 1, 6) * 6 - 1
        tmymin == IntTrunc(cymin, 6) * 6
        tmymax == IntTrunc(cymax + 1, 6) * 6 - 1
        area == (tmxmax - tmxmin + 1) * (tmymax - tmymin + 1)
    IN  <<tmxmin, tmymin, tmxmax, tmymax, area>>

\* pyproj's forward projection proj.transform(epsg:4326, crs, lon, lat) is a
\* library outside the repository.  It is represented on a grid of longitudes
\* and latitudes by a map that depends on the target zone: one grid unit is 35
\* metres, and the zone's central meridian (grid longitude 0 for zone 39N, 2 for
\* zone 40N) lies at easting 500.
proj_transform(crs, lon, lat) ==
    LET meridian == IF crs = "epsg:32639" THEN 0 ELSE 2
    IN  <<500 + 35 * (lon - meridian), 35 * lat>>

get_utm(data) == data.crs

\* the affine inversion with a slip: the pixel is rounded down, not truncated
pixel_of_floor(xp0, yp0, data) ==
    LET a == data.transform[1]
        b == data.transform[2]
        xoff == data.transform[3]
        d == data.transform[4]
        e == data.transform[5]
        yoff == data.transform[6]
        xp == xp0 - xoff
        yp == yp0 - yoff
        det == a * e - d * b
        fx == (IF det > 0 THEN e * xp - b * yp ELSE -(e * xp - b * yp)) \div Abs(det)
        fy == (IF det > 0 THEN a * yp - d * xp ELSE -(a * yp - d * xp)) \div Abs(det)
    IN  <<fx, fy>>

\* the affine inversion shared by the variants of to_xy
pixel_of(xp0, yp0, data) ==
    LET a == data.transform[1]
        b == data.transform[2]
        xoff == data.transform[3]
        d == data.transform[4]
        e == data.transform[5]
        yoff == data.transform[6]
        xp == xp0 - xoff
        yp == yp0 - yoff
        det == a * e - d * b
    IN  <<int_times_reciprocal(e * xp - b * yp, det),
          int_times_reciprocal(a * yp - d * xp, det)>>

\* to_xy of the block: projects into the raster's own coordinate system
to_xy(lon, lat, data) ==
    LET p == proj_transform(get_utm(data), lon, lat)
    IN  pixel_of(p[1], p[2], data)

\* to_xy of predict: projects into the fixed zone epsg:32639
predict_to_xy(lon, lat, data) ==
    LET p == proj_transform("epsg:32639", lon, lat)
    IN  pixel_of(p[1], p[2], data)

\* area_of_interest with a slip: the geographic bounds are looked at first
area_of_interest_lon_lat_first(p, data) ==
    IF p.roi_lon_lat # None
    THEN LET g == p.roi_lon_lat
             xy1 == predict_to_xy(g[1], g[2], data)
             xy2 == predict_to_xy(g[3], g[4], data)
         IN  get_max_min(xy1[1], xy1[2], xy2[1], xy2[2], data)
    ELSE IF p.roi_x_y # None
         THEN LET c == p.roi_x_y
              IN  get_max_min(c[1], c[2], c[3], c[4], data)
         ELSE <<0, 0, data.width, data.height, data.width * data.height>>

\* area_of_interest of predict
area_of_interest(p, data) ==
    IF p.roi_x_y # None
    THEN LET c == p.roi_x_y
         IN  get_max_min(c[1], c[2], c[3], c[4], data)
    ELSE IF p.roi_lon_lat # None
         THEN LET g == p.roi_lon_lat
                  xy1 == predict_to_xy(g[1], g[2], data)
                  xy2 == predict_to_xy(g[3], g[4], data)
              IN  get_max_min(xy1[1], xy1[2], xy2[1], xy2[2], data)
         ELSE <<0, 0, data.width, data.height, data.width * data.height>>

\* area_of_interest of the block: the bounds of the query are always used
block_area_of_interest(p, data) ==
    LET g == p.roi_lon_lat
        xy1 == to_xy(g[1], g[2], data)
        xy2 == to_xy(g[3], g[4], data)
    IN  get_max_min(xy1[1], xy1[2], xy2[1], xy2[2], data)

\* the script's region selection; it does not bind `area` without --roi_x_y
script_area_of_interest(p, data) ==
    IF p.roi_x_y # None
    THEN LET c == p.roi_x_y
         IN  get_max_min(c[1], c[2], c[3], c[4], data)
    ELSE <<0, 0, data.width, data.height, None>>

(***************************************************************************)
(* The inputs of the region specification                                  *)
(***************************************************************************)
Coord == -1..MaxCoord
Dim == 1..MaxDim
Geo == 0..MaxGeo

\* the corner points and the raster sizes of the repository's tests and docstrings
TestCorners == {<<0, 0, 400, 400>>, <<0, 0, 10, 10>>, <<5, 5, 15, 15>>}
TestSizes == {<<40, 40>>, <<20, 18>>, <<400, 400>>, <<401, 405>>}

Corners == (Coord \X Coord \X Coord \X Coord) \cup TestCorners
GeoCorners == Geo \X Geo \X Geo \X Geo
\* landscape and square rasters of every small size, and the tests' sizes
Sizes == {s \in Dim \X Dim : s[2] <= s[1]} \cup TestSizes

PixelParams == {[roi_x_y |-> c, roi_lon_lat |-> None] : c \in Corners}
GeoParams == {[roi_x_y |-> None, roi_lon_lat |-> g] : g \in GeoCorners}
BothParams ==
    {[roi_x_y |-> c, roi_lon_lat |-> <<0, 0, MaxGeo, MaxGeo>>] : c \in TestCorners}
NoParams == {[roi_x_y |-> None, roi_lon_lat |-> None]}

\* the parameters each program can be started with; get_max_min is the same
\* function in the three programs, and predict is the one run on every corner
ParamsOf(v) ==
    CASE v = "script" -> BothParams \cup NoParams
      [] v = "predict" -> PixelParams \cup GeoParams \cup BothParams \cup NoParams
      [] v = "block" -> GeoParams

Variants == {"script", "predict", "block"}

\* the state of the band reconciliation before any raster is scanned
NoBands ==
    /\ select_bands = Split(input_select_bands, ",")
    /\ validated = [r \in {"10m", "20m", "60m"} |-> None]
    /\ again = None

InitRegion ==
    /\ variant \in Variants
    /\ \E s \in Sizes : ds10 = Raster(s[1], s[2], 10, Desc10)
    /\ ds20 = Raster(FloorDiv(ds10.width, 2), FloorDiv(ds10.height, 2), 20, Desc20)
    /\ ds60 = Raster(FloorDiv(ds10.width, 6), FloorDiv(ds10.height, 6), 60, Desc60)
    /\ params \in ParamsOf(variant)
    /\ pc = "start"
    /\ roi = None
    /\ NoBands
    /\ NoNames
    /\ NoRun
    /\ NoProcess
    /\ NoPixels

\* run_model's first step (predict), area_of_interest (block), the region
\* selection of the script
AreaOfInterest ==
    /\ pc = "start"
    /\ roi' = CASE variant = "script" -> script_area_of_interest(params, ds10)
                [] variant = "predict" -> area_of_interest(params, ds10)
                [] variant = "block" -> block_area_of_interest(params, ds10)
    /\ pc' = "roi"
    /\ UNCHANGED <<PixelVars, ProcessVars, variant, ds10, ds20, ds60, params, select_bands, validated, again,
                 NameVars, RunVars>>

NextRegion == AreaOfInterest

SpecRegion == InitRegion /\ [][NextRegion]_vars

(***************************************************************************)
(* Band reconciliation                                                     *)
(***************************************************************************)
\* name in select_bands
Member(list, name) == \E k \in 1..Len(list) : list[k] = name
\* select_bands.remove(name): the first occurrence is removed
Remove(list, name) ==
    LET k == CHOOSE k \in 1..Len(list) :
                 list[k] = name /\ \A j \in 1..(k - 1) : list[j] # name
    IN  SubSeq(list, 1, k - 1) \o SubSeq(list, k + 1, Len(list))
\* defaultdict(str) with no key, and d[name] = desc
EmptyDict == [name \in {} |-> <<>>]
Put(dict, name, desc) ==
    [n \in DOMAIN dict \cup {name} |-> IF n = name THEN desc ELSE dict[n]]

\* the loop of validate from band i (0-based) on; st holds the pool and the
\* three results so far
RECURSIVE scan_bands_no_remove(_, _, _)
\* the loop with a slip: the matched code stays in the pool
scan_bands_no_remove(data, i, st) ==
    IF i >= count(data) THEN st
    ELSE LET desc == validate_description(data.descriptions[i + 1])
             name == get_band_short_name(desc)
         IN  IF Member(st.pool, name)
             THEN scan_bands_no_remove(data, i + 1,
                      [pool |-> st.pool,
                       bands |-> Append(st.bands, name),
                       indices |-> Append(st.indices, i),
                       descriptions |-> Put(st.descriptions, name, desc)])
             ELSE scan_bands_no_remove(data, i + 1, st)

RECURSIVE scan_bands_one_based(_, _, _)
\* the loop with a slip: the band's 1-based number is recorded as its index
scan_bands_one_based(data, i, st) ==
    IF i >= count(data) THEN st
    ELSE LET desc == validate_description(data.descriptions[i + 1])
             name == get_band_short_name(desc)
         IN  IF Member(st.pool, name)
             THEN scan_bands_one_based(data, i + 1,
                      [pool |-> Remove(st.pool, name),
                       bands |-> Append(st.bands, name),
                       indices |-> Append(st.indices, i + 1),
                       descriptions |-> Put(st.descriptions, name, desc)])
             ELSE scan_bands_one_based(data, i + 1, st)

RECURSIVE scan_bands_raw_description(_, _, _)
\* the loop with a slip: the raster's own description is stored, not the
\* normalized one
scan_bands_raw_description(data, i, st) ==
    IF i >= count(data) THEN st
    ELSE LET desc == validate_description(data.descriptions[i + 1])
             name == get_band_short_name(desc)
         IN  IF Member(st.pool, name)
             THEN scan_bands_raw_description(data, i + 1,
                      [pool |-> Remove(st.pool, name),
                       bands |-> Append(st.bands, name),
                       indices |-> Append(st.indices, i),
                       descriptions |-> Put(st.descriptions, name,
                                            data.descriptions[i + 1])])
             ELSE scan_bands_raw_description(data, i + 1, st)

RECURSIVE scan_bands_later_band_wins(_, _, _)
\* the loop with a slip: a later band with a code already recorded replaces
\* the index and the description recorded for it
scan_bands_later_band_wins(data, i, st) ==
    IF i >= count(data) THEN st
    ELSE LET desc == validate_description(data.descriptions[i + 1])
             name == get_band_short_name(desc)
         IN  IF Member(st.pool, name)
             THEN scan_bands_later_band_wins(data, i + 1,
                      [pool |-> Remove(st.pool, name),
                       bands |-> Append(st.bands, name),
                       indices |-> Append(st.indices, i),
                       descriptions |-> Put(st.descriptions, name, desc)])
             ELSE IF Member(st.bands, name)
                  THEN scan_bands_later_band_wins(data, i + 1,
                           [st EXCEPT
                               !.indices = [k \in DOMAIN st.indices |->
                                               IF st.bands[k] = name THEN i
                                               ELSE st.indices[k]],
                               !.descriptions = Put(st.descriptions, name, desc)])
                  ELSE scan_bands_later_band_wins(data, i + 1, st)

RECURSIVE scan_bands(_, _, _)
scan_bands(data, i, st) ==
    IF i >= count(data) THEN st
    ELSE LET desc == validate_description(data.descriptions[i + 1])
             name == get_band_short_name(desc)
         IN  IF Member(st.pool, name)
             THEN scan_bands(data, i + 1,
                      [pool |-> Remove(st.pool, name),
                       bands |-> Append(st.bands, name),
                       indices |-> Append(st.indices, i),
                       descriptions |-> Put(st.descriptions, name, desc)])
             ELSE scan_bands(data, i + 1, st)

\* the state of validate before its loop
ScanStart(pool) ==
    [pool |-> pool, bands |-> <<>>, indices |-> <<>>, descriptions |-> EmptyDict]
\* what validate returns
Returned(st) ==
    [bands |-> st.bands, indices |-> st.indices, descriptions |-> st.descriptions]

\* validate of predict and of the block: the pool is built on every call
validate(data) ==
    Returned(scan_bands(data, 0, ScanStart(Split(input_select_bands, ","))))

\* validate of the script: the pool is the module-level select_bands; the
\* result holds the pool the call leaves behind
script_validate(data, pool) == scan_bands(data, 0, ScanStart(pool))

(***************************************************************************)
(* The inputs of the band specification                                    *)
(***************************************************************************)
\* "B2 (490 nm)": a description already in the normalized form
N_B2 == <<"B", "2", " ", "(", "4", "9", "0", " ", "n", "m", ")">>
\* "B12": a description with no comma and no space
U_B12 == <<"B", "1", "2">>

\* "B10" and "B10 (1375 nm)": band 10 described without the driver's pattern
U_B10 == <<"B", "1", "0">>
N_B10 == <<"B", "1", "0", " ", "(", "1", "3", "7", "5", " ", "n", "m", ")">>

BandDescs == {D_B2, N_B2, D_B8A, D_B10, U_B12}

\* the rasters with n bands
RastersOf(n) == [1..n -> BandDescs]
\* the scenes (10m, 20m, 60m descriptions) with at most MaxBands bands in all
SmallScenes ==
    UNION {RastersOf(n[1]) \X RastersOf(n[2]) \X RastersOf(n[3]) :
           n \in {m \in (0..MaxBands) \X (0..MaxBands) \X (0..MaxBands) :
                     m[1] + m[2] + m[3] <= MaxBands}}
\* the scene of an L1C product, and scenes around the tests' 10m raster
TestScenes ==
    {<<Desc10, Desc20, Desc60>>, <<Desc10, <<>>, <<>>>>, <<Desc10, Desc10, Desc60>>,
     <<Desc20, Desc10, Desc60>>, <<<<U_B10, D_B10>>, <<N_B10, D_B8A>>, Desc60>>}
Scenes == SmallScenes \cup TestScenes

\* the region the band scenes are run with
BandParams(v) ==
    IF v = "block" THEN [roi_x_y |-> None, roi_lon_lat |-> <<2, 3, 3, 0>>]
    ELSE [roi_x_y |-> <<0, 0, 11, 11>>, roi_lon_lat |-> None]

\* the region each program resolves
RegionOf(v, p, data) ==
    CASE v = "script" -> script_area_of_interest(p, data)
      [] v = "predict" -> area_of_interest(p, data)
      [] v = "block" -> block_area_of_interest(p, data)

\* the pools the script can start with (--run_60 given or not)
ScriptPools == {Split(input_select_bands, ","), Split(input_select_bands_20, ",")}

InitBands ==
    /\ variant \in Variants
    /\ \E sc \in Scenes :
        /\ ds10 = Raster(12, 12, 10, sc[1])
        /\ ds20 = Raster(6, 6, 20, sc[2])
        /\ ds60 = Raster(2, 2, 60, sc[3])
    /\ params = BandParams(variant)
    /\ roi = RegionOf(variant, params, ds10)
    /\ pc = "validate10"
    /\ select_bands \in IF variant = "script" THEN ScriptPools
                        ELSE {Split(input_select_bands, ",")}
    /\ validated = [r \in {"10m", "20m", "60m"} |-> None]
    /\ again = None
    /\ NoNames
    /\ NoRun
    /\ NoProcess
    /\ NoPixels

\* one call of validate by the running program: its result and the pool it leaves
Call(data) ==
    IF variant = "script" THEN script_validate(data, select_bands)
    ELSE [pool |-> select_bands] @@ validate(data)

\* the pass of run_model (of the script's module level) over one raster
ValidateStep(at, r, data, next) ==
    /\ pc = at
    /\ validated' = [validated EXCEPT ![r] = Returned(Call(data))]
    /\ select_bands' = Call(data).pool
    /\ again' = None
    /\ pc' = next
    /\ UNCHANGED <<PixelVars, ProcessVars, variant, ds10, ds20, ds60, params, roi, NameVars, RunVars>>

Validate10 == ValidateStep("validate10", "10m", ds10, "validate20")
Validate20 == ValidateStep("validate20", "20m", ds20, "validate60")
Validate60 == ValidateStep("validate60", "60m", ds60, "validated")

\* the raster the pass has just scanned
LastScanned ==
    CASE pc = "validate20" -> "10m"
      [] pc = "validate60" -> "20m"
      [] pc = "validated" -> "60m"
      [] OTHER -> "none"
RasterAt(r) ==
    CASE r = "10m" -> ds10
      [] r = "20m" -> ds20
      [] r = "60m" -> ds60

\* validate called a second time, right after the pass's call, on the same raster
ValidateAgain ==
    /\ LastScanned # "none"
    /\ again = None
    /\ again' = Returned(Call(RasterAt(LastScanned)))
    /\ select_bands' = Call(RasterAt(LastScanned)).pool
    /\ UNCHANGED <<PixelVars, ProcessVars, variant, ds10, ds20, ds60, params, roi, pc, validated,
                 NameVars, RunVars>>

NextBands == Validate10 \/ Validate20 \/ Validate60 \/ ValidateAgain

SpecBands == InitBands /\ [][NextBands]_vars

(***************************************************************************)
(* Claims about the region of interest (checked under SpecRegion)          *)
(***************************************************************************)
\* a region has been resolved
Resolved == pc = "roi"
\* the region was given in pixels, so get_max_min received params.roi_x_y
PixelRoi == Resolved /\ params.roi_x_y # None
\* only geographic bounds were given, to a program that converts them
GeoRoi ==
    /\ Resolved
    /\ variant \in {"predict", "block"}
    /\ params.roi_x_y = None
    /\ params.roi_lon_lat # None
\* no region was given
NoRoi ==
    /\ Resolved
    /\ params.roi_x_y = None
    /\ variant = "script" \/ params.roi_lon_lat = None
\* the corner points that reach get_max_min, from the inputs
CornerPoints ==
    IF params.roi_x_y # None THEN params.roi_x_y
    ELSE LET g == params.roi_lon_lat
             xy1 == IF variant = "block" THEN to_xy(g[1], g[2], ds10)
                    ELSE predict_to_xy(g[1], g[2], ds10)
             xy2 == IF variant = "block" THEN to_xy(g[3], g[4], ds10)
                    ELSE predict_to_xy(g[3], g[4], ds10)
         IN  <<xy1[1], xy1[2], xy2[1], xy2[2]>>
\* a coordinate clamped into [0, dim - 1]
Clamp(v, dim) == IF v < 0 THEN 0 ELSE IF v > dim - 1 THEN dim - 1 ELSE v
CMinX == Clamp(Min2(CornerPoints[1], CornerPoints[3]), ds10.width)
CMaxX == Clamp(Max2(CornerPoints[1], CornerPoints[3]), ds10.width)
CMinY == Clamp(Min2(CornerPoints[2], CornerPoints[4]), ds10.height)
CMaxY == Clamp(Max2(CornerPoints[2], CornerPoints[4]), ds10.height)
RoiWidth == roi[3] - roi[1] + 1
RoiHeight == roi[4] - roi[2] + 1

\* C1: the width x_max-x_min+1 and the height y_max-y_min+1 of the rectangle
\* get_max_min returns are each an exact multiple of 6, for all corner points
\* and every raster size >= 1.
C1_SizeMultipleOf6 ==
    (PixelRoi \/ GeoRoi) => RoiWidth % 6 = 0 /\ RoiHeight % 6 = 0
C1_Witness ==
    PixelRoi /\ RoiWidth = 6 /\ RoiHeight = 6 /\ params.roi_x_y[1] = -1

\* C2 as stated: after the snapping all four bounds lie inside the raster,
\* 0 <= x_min, x_max <= width-1 and 0 <= y_min, y_max <= height-1.
C2_AllBoundsInside ==
    (PixelRoi \/ GeoRoi) =>
        /\ 0 <= roi[1] /\ roi[1] <= ds10.width - 1
        /\ 0 <= roi[3] /\ roi[3] <= ds10.width - 1
        /\ 0 <= roi[2] /\ roi[2] <= ds10.height - 1
        /\ 0 <= roi[4] /\ roi[4] <= ds10.height - 1
\* C2 amended: the minima lie inside the raster; the maxima are at most
\* width-1 / height-1 and at least -1, and a maximum is -1 exactly when the
\* clamped maximum of that axis is below 5.
C2_BoundsAmended ==
    (PixelRoi \/ GeoRoi) =>
        /\ 0 <= roi[1] /\ roi[1] <= ds10.width - 1
        /\ -1 <= roi[3] /\ roi[3] <= ds10.width - 1
        /\ 0 <= roi[2] /\ roi[2] <= ds10.height - 1
        /\ -1 <= roi[4] /\ roi[4] <= ds10.height - 1
        /\ (roi[3] = -1) <=> (CMaxX < 5)
        /\ (roi[4] = -1) <=> (CMaxY < 5)
C2_Witness ==
    PixelRoi /\ roi[3] = -1 /\ roi[4] = 5 /\ ds10.width = MaxDim

C4_Examples ==
    PixelRoi =>
        /\ (/\ params.roi_x_y = <<0, 0, 400, 400>>
            /\ ds10.width >= 400
            /\ ds10.height >= 400) => roi = <<0, 0, 395, 395, 156816>>
        /\ (/\ params.roi_x_y = <<0, 0, 10, 10>>
            /\ ds10.width = 40
            /\ ds10.height = 40) => roi = <<0, 0, 5, 5, 36>>
        /\ roi[5] = RoiWidth * RoiHeight
C4_Witness ==
    PixelRoi /\ ds10.width = 401 /\ ds10.height = 405 /\ roi = <<0, 0, 395, 395, 156816>>

\* C5: with a pixel region, area_of_interest returns get_max_min of those two
\* corners and the 10m raster ((5,5),(15,15) on 40x40 gives (0,0,11,11), area
\* 144); with geographic bounds only, it returns get_max_min of the to_xy
\* images of the two corners.
C5_AreaOfInterest ==
    /\ PixelRoi =>
        /\ roi = get_max_min(params.roi_x_y[1], params.roi_x_y[2],
                             params.roi_x_y[3], params.roi_x_y[4], ds10)
        /\ (/\ params.roi_x_y = <<5, 5, 15, 15>>
            /\ ds10.width = 40
            /\ ds10.height = 40) => roi = <<0, 0, 11, 11, 144>>
    /\ GeoRoi =>
        roi = get_max_min(CornerPoints[1], CornerPoints[2],
                          CornerPoints[3], CornerPoints[4], ds10)
C5_Witness ==
    /\ GeoRoi
    /\ variant = "predict"
    /\ params.roi_lon_lat = <<0, 3, 2, 1>>
    /\ CornerPoints = <<0, 0, 7, 6>>
    /\ roi = <<0, 0, 5, 5, 36>>

\* C6: get_max_min does not depend on the order of the two corner points:
\* (x1,y1,x2,y2), (x2,y2,x1,y1), (x2,y1,x1,y2) and (x1,y2,x2,y1) give the same
\* result.
C6_OrderIndependent ==
    PixelRoi =>
        LET c == params.roi_x_y
        IN  /\ roi = get_max_min(c[3], c[4], c[1], c[2], ds10)
            /\ roi = get_max_min(c[3], c[2], c[1], c[4], ds10)
            /\ roi = get_max_min(c[1], c[4], c[3], c[2], ds10)
C6_Witness ==
    PixelRoi /\ params.roi_x_y = <<6, 0, 0, 5>> /\ roi = <<0, 0, 5, 5, 36>>

\* C7: with no region supplied the returned region is the whole raster in the
\* inclusive convention, x_max-x_min+1 = width, y_max-y_min+1 = height and area
\* = width*height, so the 10m window read from (x_min, y_min) with that width
\* and height lies inside the raster.
C7_WholeRasterInclusive ==
    NoRoi =>
        /\ RoiWidth = ds10.width
        /\ RoiHeight = ds10.height
        /\ variant = "predict" => roi[5] = ds10.width * ds10.height
        /\ roi[1] >= 0 /\ roi[1] + RoiWidth <= ds10.width
        /\ roi[2] >= 0 /\ roi[2] + RoiHeight <= ds10.height

(***************************************************************************)
(* Claims about the band reconciliation (checked under SpecBands)          *)
(***************************************************************************)
Resolutions == {"10m", "20m", "60m"}
\* the set of codes a result holds
Codes(result) == {result.bands[k] : k \in 1..Len(result.bands)}
\* a second call has been made on the raster just scanned
CalledTwice == LastScanned # "none" /\ again # None
\* the result of the first of the two calls
First == validated[LastScanned]

\* C8: over one full pass (validate on the 10m, then the 20m, then the 60m
\* raster) each code is claimed by at most one band in total: a code matched at
\* an earlier resolution is not matched again at a later one.
C8_ClaimedOncePerPass ==
    pc = "validated" =>
        \A r1, r2 \in Resolutions :
            r1 # r2 => Codes(validated[r1]) \cap Codes(validated[r2]) = {}

\* C9 as stated: calling validate twice in a row on the same raster, in any
\* state of the program, returns the same codes, indices and descriptions.
C9_Idempotent ==
    CalledTwice => again = First
\* C9 amended: two calls in a row on the same raster return the same codes,
\* indices and descriptions when every call starts from the full pool, as
\* validate of predict and of the block does; the script's validate draws from
\* the module-level pool, which the first call has consumed, so its second call
\* returns no code, no index and no description, and leaves the pool as it was.
C9_IdempotentOnFreshPool ==
    CalledTwice =>
        /\ variant \in {"predict", "block"} => again = First
        /\ variant = "script" =>
            /\ again = Returned(ScanStart(select_bands))
            /\ \A c \in Codes(First) : ~Member(select_bands, c)
C9_Witness ==
    /\ CalledTwice
    /\ variant = "script"
    /\ pc = "validate60"
    /\ First.bands = <<<<"B", "8", "A">>, <<"B", "2">>>>
    /\ again.bands = <<>>

\* C10: validate returns codes and indices in raster-scan order: indices is
\* strictly increasing and codes[k] is the short code of the normalized
\* description of raster band indices[k]; a raster described B4,B3,B2,B8
\* gives codes [B4,B3,B2,B8] and indices [0,1,2,3].
C10_ScanOrder ==
    \A r \in Resolutions :
        validated[r] # None =>
            LET res == validated[r]
                data == RasterAt(r)
            IN  /\ Len(res.bands) = Len(res.indices)
                /\ \A k \in 1..Len(res.indices) :
                    /\ res.indices[k] \in 0..(count(data) - 1)
                    /\ k > 1 => res.indices[k - 1] < res.indices[k]
                    /\ res.bands[k] = get_band_short_name(
                           validate_description(data.descriptions[res.indices[k] + 1]))
                /\ (r = "10m" /\ data.descriptions = Desc10) =>
                    /\ res.bands = <<<<"B", "4">>, <<"B", "3">>, <<"B", "2">>, <<"B", "8">>>>
                    /\ res.indices = <<0, 1, 2, 3>>
C10_Witness ==
    /\ pc = "validate20"
    /\ ds10.descriptions = Desc10
    /\ validated["10m"].bands = <<<<"B", "4">>, <<"B", "3">>, <<"B", "2">>, <<"B", "8">>>>
    /\ validated["10m"].indices = <<0, 1, 2, 3>>

\* the results of the pass so far, with the raster each was computed from
Results == {r \in Resolutions : validated[r] # None}
\* the normalized description of the band at a 0-based index of a raster
NormalizedAt(data, i) == validate_description(data.descriptions[i + 1])

\* C11: for every raster the three results of validate are consistent: codes
\* and indices have the same length, the keys of descriptions are exactly the
\* codes, and descriptions[c] is the normalized description of the band that
\* claimed the code c.
C11_ResultsConsistent ==
    \A r \in Results :
        LET res == validated[r]
        IN  /\ Len(res.bands) = Len(res.indices)
            /\ DOMAIN res.descriptions = Codes(res)
            /\ \A k \in 1..Len(res.bands) :
                /\ \A j \in 1..(k - 1) : res.bands[j] # res.bands[k]
                /\ res.descriptions[res.bands[k]] =
                       NormalizedAt(RasterAt(r), res.indices[k])
C11_Witness ==
    /\ pc = "validate20"
    /\ ds10.descriptions = <<D_B10, D_B8A, N_B2>>
    /\ validated["10m"].indices = <<1, 2>>
    /\ validated["10m"].descriptions[<<"B", "8", "A">>] =
           <<"B", "8", "A", " ", "(", "8", "6", "5", " ", "n", "m", ")">>
    /\ validated["10m"].descriptions[<<"B", "2">>] = N_B2

\* the 12 canonical codes
CanonicalCodes ==
    {<<"B", "1">>, <<"B", "2">>, <<"B", "3">>, <<"B", "4">>, <<"B", "5">>,
     <<"B", "6">>, <<"B", "7">>, <<"B", "8">>, <<"B", "8", "A">>, <<"B", "9">>,
     <<"B", "1", "1">>, <<"B", "1", "2">>}

\* C12: every code validate returns is one of the 12 canonical codes B1, B2,
\* B3, B4, B5, B6, B7, B8, B8A, B9, B11, B12; a band whose short code is B10, or
\* any other string outside the catalog, is in none of codes, indices and
\* descriptions, whatever the band descriptions of the raster are.
C12_OnlyCanonicalCodes ==
    \A r \in Results :
        LET res == validated[r]
            data == RasterAt(r)
        IN  /\ Codes(res) \subseteq CanonicalCodes
            /\ DOMAIN res.descriptions \subseteq CanonicalCodes
            /\ \A i \in 0..(count(data) - 1) :
                get_band_short_name(NormalizedAt(data, i)) \notin CanonicalCodes =>
                    \A k \in 1..Len(res.indices) : res.indices[k] # i
C12_Witness ==
    /\ pc = "validated"
    /\ variant = "predict"
    /\ ds10.descriptions = <<U_B10, D_B10>>
    /\ validated["10m"].bands = <<>>
    /\ validated["20m"].bands = <<<<"B", "8", "A">>>>
    /\ validated["20m"].indices = <<1>>
    /\ validated["60m"].bands = <<<<"B", "1">>, <<"B", "9">>>>
    /\ validated["60m"].indices = <<0, 1>>

(***************************************************************************)
(* The band naming functions on their own                                  *)
(***************************************************************************)
\* the characters of generated labels (a line break among them), wavelengths
\* and free text
LabelChars == {"B", "8", "A", "\n"}
DigitChars == {"6", "5"}
FreeChars == {"B", "4", ",", " "}

Labels == UNION {[1..n -> LabelChars] : n \in 0..MaxLabel}
DigitStrings == UNION {[1..n -> DigitChars] : n \in 1..MaxDigits}
\* "<label>, central wavelength <digits> nm" for every label and wavelength
PatternDescriptions == {Desc(l, n) : l \in Labels, n \in DigitStrings}
FreeDescriptions == UNION {[1..n -> FreeChars] : n \in 0..MaxFree}
\* the descriptions of the tests and of an L1C product, forms the pattern just
\* misses, the pattern followed or preceded by more text
OtherDescriptions ==
    {Desc10[k] : k \in 1..Len(Desc10)} \cup {Desc20[k] : k \in 1..Len(Desc20)}
    \cup {Desc60[k] : k \in 1..Len(Desc60)}
    \cup {N_B2, U_B12, U_B10, N_B10,
          D_B4 \o <<" ", "x">>,
          <<"x", " ">> \o D_B4,
          <<"B", "4", ",", "B", "3">> \o PatCentral \o <<"6", "6", "5">> \o PatNm,
          <<"B", "4">> \o PatCentral \o PatNm,
          <<"B", "4">> \o PatCentral \o <<"6", "6", "5", "n", "m">>,
          <<"B", "4", " ">> \o PatCentral \o <<"6", "6", "5">> \o PatNm,
          <<"B", "4", "x">>, <<"B", "4", "5", "6", "7">>}
Descriptions == PatternDescriptions \cup FreeDescriptions \cup OtherDescriptions

InitNames ==
    /\ variant = "predict"
    /\ ds10 = Raster(12, 12, 10, Desc10)
    /\ ds20 = Raster(6, 6, 20, Desc20)
    /\ ds60 = Raster(2, 2, 60, Desc60)
    /\ params = [roi_x_y |-> None, roi_lon_lat |-> None]
    /\ pc = "describe"
    /\ roi = None
    /\ NoBands
    /\ band_description \in Descriptions
    /\ named = None
    /\ NoRun
    /\ NoProcess
    /\ NoPixels

\* desc = validate_description(description); name = get_band_short_name(desc),
\* and get_band_short_name of the description as it is
NameBand ==
    /\ pc = "describe"
    /\ named' = [desc |-> validate_description(band_description),
                 name |-> get_band_short_name(validate_description(band_description)),
                 short |-> get_band_short_name(band_description)]
    /\ pc' = "named"
    /\ UNCHANGED <<PixelVars, ProcessVars, variant, ds10, ds20, ds60, params, roi, select_bands, validated,
                   again, band_description, RunVars>>

NextNames == NameBand

SpecNames == InitNames /\ [][NextNames]_vars

(***************************************************************************)
(* Claims about the band naming functions (checked under SpecNames)        *)
(***************************************************************************)
Named == pc = "named"
HasChar(s, c) == \E k \in 1..Len(s) : s[k] = c
\* s is the text of d before the first c
IsTextBefore(s, d, c) ==
    /\ Len(s) < Len(d)
    /\ d[Len(s) + 1] = c
    /\ \A i \in 1..Len(s) : s[i] = d[i] /\ d[i] # c
\* s is the first three characters of d (all of d when it is shorter)
IsFirstThree(s, d) ==
    /\ Len(s) = (IF Len(d) < 3 THEN Len(d) ELSE 3)
    /\ \A i \in 1..Len(s) : s[i] = d[i]
\* d starts with "<label>, central wavelength <digits> nm", the label being
\* any text (lineBreaks) or any text with no line break, the digits at least one
StartsWithPattern(d, lineBreaks) ==
    \E i \in 0..Len(d) : \E n \in 1..Len(d) :
        LET j == i + Len(PatCentral)
        IN  /\ j + n + Len(PatNm) <= Len(d)
            /\ lineBreaks \/ ~HasChar(SubSeq(d, 1, i), "\n")
            /\ SubSeq(d, i + 1, j) = PatCentral
            /\ \A k \in (j + 1)..(j + n) : d[k] \in Digit
            /\ SubSeq(d, j + n + 1, j + n + Len(PatNm)) = PatNm
\* what the claim says of the pattern, for the labels of a given set
RewritesLabels(labels) ==
    \A l \in labels : \A n \in DigitStrings :
        (/\ Len(band_description) = Len(l) + Len(PatCentral) + Len(n) + Len(PatNm)
         /\ ~HasChar(l, ",")
         /\ ~HasChar(l, " ")
         /\ band_description = l \o PatCentral \o n \o PatNm) =>
            /\ named.desc = l \o <<" ", "(">> \o n \o <<" ", "n", "m", ")">>
            /\ named.name = l
\* what the claim says of get_band_short_name
ShortNameRule ==
    IF HasChar(band_description, ",")
    THEN IsTextBefore(named.short, band_description, ",")
    ELSE IF HasChar(band_description, " ")
         THEN IsTextBefore(named.short, band_description, " ")
         ELSE IsFirstThree(named.short, band_description)

\* C13 as stated: for every band label L with no comma and no space and every
\* digit string N, validate_description("L, central wavelength N nm") returns
\* "L (N nm)" and get_band_short_name of that returns L; a description that
\* does not start with the pattern is returned unchanged; get_band_short_name
\* takes the text before the first comma, else before the first space, else the
\* first three characters.
C13_Names ==
    Named =>
        /\ RewritesLabels(Labels)
        /\ ~StartsWithPattern(band_description, TRUE) => named.desc = band_description
        /\ ShortNameRule
\* C13 amended: the same for every band label L with no comma, no space and no
\* line break; a label with a line break is not matched by the pattern (its
\* "." does not match a line break) and the description is returned unchanged.
C13_NamesOnOneLine ==
    Named =>
        /\ RewritesLabels({l \in Labels : ~HasChar(l, "\n")})
        /\ ~StartsWithPattern(band_description, FALSE) => named.desc = band_description
        /\ \A l \in Labels : \A n \in DigitStrings :
            (/\ Len(band_description) = Len(l) + Len(PatCentral) + Len(n) + Len(PatNm)
             /\ HasChar(l, "\n")
             /\ band_description = l \o PatCentral \o n \o PatNm) =>
                named.desc = band_description /\ named.name = l
        /\ ShortNameRule
C13_Witness ==
    /\ Named
    /\ band_description = D_B4
    /\ named.desc = <<"B", "4", " ", "(", "6", "6", "5", " ", "n", "m", ")">>
    /\ named.name = <<"B", "4">>
    /\ named.short = <<"B", "4">>

(***************************************************************************)
(* Extraction, model and output of a run                                   *)
(***************************************************************************)
\* An array is [shape, channels]: its shape and, for each index of its band
\* axis, what the channel holds.  A channel read from a raster is
\* [raster, band] (the resolution and the 0-based band); a channel the model
\* super-resolved from c is [sr |-> c].
ResolutionOf(data) ==
    CASE data.transform[1] = 10 -> "10m"
      [] data.transform[1] = 20 -> "20m"
      [] data.transform[1] = 60 -> "60m"

\* rasterio.windows.Window(col_off, row_off, width, height)
Window(col_off, row_off, width, height) == <<col_off, row_off, width, height>>

\* the window lies in the raster and holds at least one pixel
InsideRaster(window, data) ==
    /\ window[1] >= 0 /\ window[2] >= 0
    /\ window[3] >= 1 /\ window[4] >= 1
    /\ window[1] + window[3] <= data.width
    /\ window[2] + window[4] <= data.height

\* the part of a window that lies in the raster (Window.crop)
Crop(window, data) ==
    LET col_start == Min2(Max2(window[1], 0), data.width)
        row_start == Min2(Max2(window[2], 0), data.height)
        col_stop == Max2(0, Min2(window[1] + window[3], data.width))
        row_stop == Max2(0, Min2(window[2] + window[4], data.height))
    IN  Window(col_start, row_start,
               Max2(col_stop - col_start, 0), Max2(row_stop - row_start, 0))

\* data.read(window=...): every band of the raster over the window, band axis first
read(data, window) ==
    [window |-> window,
     shape |-> <<count(data), window[4], window[3]>>,
     channels |-> [k \in 1..count(data) |->
                      [raster |-> ResolutionOf(data), band |-> k - 1]]]

\* np.rollaxis(a, 0, 3): the band axis becomes the last one
rollaxis_0_3(a) ==
    [a EXCEPT !.shape = <<a.shape[2], a.shape[3], a.shape[1]>>]

\* a[:, :, term]
take(a, term) ==
    [a EXCEPT !.shape = <<a.shape[1], a.shape[2], Len(term)>>,
              !.channels = [k \in 1..Len(term) |-> a.channels[term[k] + 1]]]

\* the window data_final asks for (predict and the script)
data_final_window(x_mi, y_mi, x_ma, y_ma, n) ==
    Window(x_mi, y_mi, x_ma - x_mi + n, y_ma - y_mi + n)

\* data_final with a slip: the bands are not selected
data_final_all_bands(data, term, x_mi, y_mi, x_ma, y_ma, n) ==
    rollaxis_0_3(read(data, data_final_window(x_mi, y_mi, x_ma, y_ma, n)))

\* data_final for a non-empty term, the library reading the window as asked
data_final(data, term, x_mi, y_mi, x_ma, y_ma, n) ==
    take(rollaxis_0_3(read(data, data_final_window(x_mi, y_mi, x_ma, y_ma, n))), term)

\* what the read of a window that is not inside the raster gives: rasterio
\* either reads the part of the window that lies in the raster or raises
clipped(a, data) ==
    LET w == Crop(a.window, data)
    IN  [a EXCEPT !.window = w, !.shape = <<w[4], w[3], a.shape[3]>>]

\* DSen2_20(data10, data20) and DSen2_60(data10, data20, data60): the model is
\* outside the repository's sources; it returns the bands of its last input,
\* super-resolved to the extent of data10, in the order it was given them
SuperResolved(d10, coarse) ==
    [shape |-> <<d10.shape[1], d10.shape[2], coarse.shape[3]>>,
     channels |-> [k \in 1..Len(coarse.channels) |-> [sr |-> coarse.channels[k]]]]
DSen2_20(d10, d20) == SuperResolved(d10, d20)
DSen2_60(d10, d20, d60) == SuperResolved(d10, d60)

\* np.concatenate((a, b), axis=2)
concatenate(a, b) ==
    [shape |-> <<a.shape[1], a.shape[2], a.shape[3] + b.shape[3]>>,
     channels |-> a.channels \o b.channels]

\* rasterio.Affine.translation(xoff, yoff) and the product of two transforms
translation(xoff, yoff) == <<1, 0, xoff, 0, 1, yoff>>
AffineMul(s, t) ==
    <<s[1] * t[1] + s[2] * t[4], s[1] * t[2] + s[2] * t[5],
      s[1] * t[3] + s[2] * t[6] + s[3],
      s[4] * t[1] + s[5] * t[4], s[4] * t[2] + s[5] * t[5],
      s[4] * t[3] + s[5] * t[6] + s[6]>>

\* data.profile
profile_of(data) ==
    [driver |-> "SENTINEL2", dtype |-> "uint16", width |-> data.width,
     height |-> data.height, count |-> count(data), crs |-> data.crs,
     transform |-> data.transform]

\* out_dims of predict's update
update_out_dims(size_10m, model_output) ==
    IF params.copy_original_bands = "yes"
    THEN size_10m[3] + model_output.shape[3]
    ELSE model_output.shape[3]

\* update with a slip: the translation is applied on the left
update_translate_left(data, size_10m, model_output, xmi, ymi) ==
    [profile_of(data) EXCEPT
        !.transform = AffineMul(translation(xmi, ymi), profile_of(data).transform),
        !.dtype = "float32",
        !.driver = "GTiff",
        !.width = size_10m[2],
        !.height = size_10m[1],
        !.count = update_out_dims(size_10m, model_output)]

\* update of predict
update(data, size_10m, model_output, xmi, ymi) ==
    [profile_of(data) EXCEPT
        !.transform = AffineMul(profile_of(data).transform, translation(xmi, ymi)),
        !.dtype = "float32",
        !.driver = "GTiff",
        !.width = size_10m[2],
        !.height = size_10m[1],
        !.count = update_out_dims(size_10m, model_output)]

(***************************************************************************)
(* The inputs of the run specification                                     *)
(***************************************************************************)
RunVariants == {"script", "predict"}
Tiles == 0..MaxTiles
\* the regions that lie on the 60m grid of the raster
TileRegions ==
    {<<6 * a[1], 6 * c[1], 6 * a[2] - 1, 6 * c[2] - 1>> :
        a \in {t \in Tiles \X Tiles : t[1] < t[2]},
        c \in {t \in Tiles \X Tiles : t[1] < t[2]}}
\* a region off the grid and beyond the raster, and one too small to hold a tile
RunCorners == TileRegions \cup {<<5, 5, 6 * MaxTiles + 3, 6 * MaxTiles + 3>>, <<0, 0, 3, 3>>}

\* an L1C product; products with no usable band at one resolution; bands out
\* of catalog order with B10 among them; the 10m codes a second time at 20m; a
\* 20m code on the 60m raster
RunScenes ==
    {<<Desc10, Desc20, Desc60>>,
     <<Desc10, Desc20, <<>>>>,
     <<Desc10, Desc20, <<D_B10>>>>,
     <<Desc10, <<D_B10>>, Desc60>>,
     <<<<U_B10>>, Desc20, Desc60>>,
     <<<<D_B4, D_B10, D_B2>>, <<D_B12, D_B5>>, <<D_B10, D_B9, D_B1>>>>,
     <<Desc10, Desc10, Desc60>>,
     <<Desc10, <<D_B5>>, <<D_B8A>>>>}

\* a north-up 10m raster, and one whose rows and columns are slightly sheared
RunTransforms(v) ==
    IF v = "predict" THEN {Transform(10), <<10, 2, 500, 1, -10, 100>>}
    ELSE {Transform(10)}

\* the parameters of a run: the task parameters of predict, the arguments of
\* the script
RunParams(v) ==
    IF v = "predict"
    THEN {[roi_x_y |-> c, roi_lon_lat |-> None, copy_original_bands |-> o, run_60 |-> TRUE] :
             c \in RunCorners \cup {None}, o \in {"yes", "no"}}
         \cup {[roi_x_y |-> None, roi_lon_lat |-> <<0, 3, 2, 1>>,
                copy_original_bands |-> o, run_60 |-> TRUE] : o \in {"yes", "no"}}
    ELSE {[roi_x_y |-> c, roi_lon_lat |-> None, copy_original_bands |-> o, run_60 |-> r] :
             c \in RunCorners \cup {None}, o \in BOOLEAN, r \in BOOLEAN}

InitRun ==
    /\ variant \in RunVariants
    /\ \E sc \in RunScenes : \E t \in RunTransforms(variant) :
        /\ ds10 = [Raster(6 * MaxTiles, 6 * MaxTiles, 10, sc[1]) EXCEPT !.transform = t]
        /\ ds20 = Raster(3 * MaxTiles, 3 * MaxTiles, 20, sc[2])
        /\ ds60 = Raster(MaxTiles, MaxTiles, 60, sc[3])
    /\ params \in RunParams(variant)
    /\ pc = "start"
    /\ roi = None
    /\ select_bands = IF variant = "script" /\ ~params.run_60
                      THEN Split(input_select_bands_20, ",")
                      ELSE Split(input_select_bands, ",")
    /\ validated = [r \in {"10m", "20m", "60m"} |-> None]
    /\ again = None
    /\ NoNames
    /\ NoRun
    /\ NoProcess
    /\ NoPixels

\* if xmax < xmin or ymax < ymin: sys.exit(0)
\* the region test with a slip: the run goes on whatever the region is
CheckRegion_no_exit ==
    /\ pc = "roi"
    /\ pc' = "validate10"
    /\ UNCHANGED <<PixelVars, ProcessVars, variant, ds10, ds20, ds60, params, roi, select_bands, validated,
                   again, NameVars, RunVars>>

CheckRegion ==
    /\ pc = "roi"
    /\ pc' = IF roi[3] < roi[1] \/ roi[4] < roi[2] THEN "exit_invalid" ELSE "validate10"
    /\ UNCHANGED <<PixelVars, ProcessVars, variant, ds10, ds20, ds60, params, roi, select_bands, validated,
                   again, NameVars, RunVars>>

\* one call data_final(data, term, x_mi, y_mi, x_ma, y_ma, n): the array it
\* returns and the window it asked for, or None when it raises
\* (UnboundLocalError for an empty term, the library's error for a window that
\* is not inside the raster)
DataFinalResults(data, term, x_mi, y_mi, x_ma, y_ma, n) ==
    LET w == data_final_window(x_mi, y_mi, x_ma, y_ma, n)
        a == [requested |-> w] @@ data_final(data, term, x_mi, y_mi, x_ma, y_ma, n)
    IN  IF term = <<>> THEN {[raised |-> "UnboundLocalError"]}
        ELSE IF InsideRaster(w, data) THEN {a}
             ELSE {clipped(a, data), [raised |-> "read"]}

IsRaised(result) == "raised" \in DOMAIN result

DataFinal10 ==
    /\ pc = "validated"
    /\ \E got \in DataFinalResults(ds10, validated["10m"].indices,
                                   roi[1], roi[2], roi[3], roi[4], 1) :
        IF IsRaised(got)
        THEN /\ pc' = "raised_" \o got.raised
             /\ UNCHANGED data10
        ELSE /\ pc' = "data20"
             /\ data10' = got
    /\ UNCHANGED <<PixelVars, ProcessVars, variant, ds10, ds20, ds60, params, roi, select_bands, validated,
                   again, NameVars, data20, data60, sr20, sr60, sr_final,
                   validated_sr_final_bands, out_dims, profile, written>>

\* the script reads the 60m raster only with --run_60
DataFinal20 ==
    /\ pc = "data20"
    /\ \E got \in DataFinalResults(ds20, validated["20m"].indices,
                                   FloorDiv(roi[1], 2), FloorDiv(roi[2], 2),
                                   FloorDiv(roi[3], 2), FloorDiv(roi[4], 2),
                                   FloorDiv(1, 2)) :
        IF IsRaised(got)
        THEN /\ pc' = "raised_" \o got.raised
             /\ UNCHANGED data20
        ELSE /\ pc' = IF variant = "script" /\ ~params.run_60 THEN "model" ELSE "data60"
             /\ data20' = got
    /\ UNCHANGED <<PixelVars, ProcessVars, variant, ds10, ds20, ds60, params, roi, select_bands, validated,
                   again, NameVars, data10, data60, sr20, sr60, sr_final,
                   validated_sr_final_bands, out_dims, profile, written>>

DataFinal60 ==
    /\ pc = "data60"
    /\ \E got \in DataFinalResults(ds60, validated["60m"].indices,
                                   FloorDiv(roi[1], 6), FloorDiv(roi[2], 6),
                                   FloorDiv(roi[3], 6), FloorDiv(roi[4], 6),
                                   FloorDiv(1, 6)) :
        IF IsRaised(got)
        THEN /\ pc' = "raised_" \o got.raised
             /\ UNCHANGED data60
        ELSE /\ pc' = "model"
             /\ data60' = got
    /\ UNCHANGED <<PixelVars, ProcessVars, variant, ds10, ds20, ds60, params, roi, select_bands, validated,
                   again, NameVars, data10, data20, sr20, sr60, sr_final,
                   validated_sr_final_bands, out_dims, profile, written>>

\* run_model of predict: the model is run when all three band lists are non-empty
Model ==
    /\ pc = "model"
    /\ variant = "predict"
    /\ IF /\ validated["60m"].bands # <<>>
          /\ validated["20m"].bands # <<>>
          /\ validated["10m"].bands # <<>>
       THEN /\ sr60' = DSen2_60(data10, data20, data60)
            /\ sr20' = DSen2_20(data10, data20)
            /\ sr_final' = concatenate(DSen2_20(data10, data20),
                                       DSen2_60(data10, data20, data60))
            /\ validated_sr_final_bands' = validated["20m"].bands \o validated["60m"].bands
            /\ pc' = "update"
       ELSE /\ pc' = "exit_no_sr"
            /\ UNCHANGED <<sr20, sr60, sr_final, validated_sr_final_bands>>
    /\ UNCHANGED <<PixelVars, ProcessVars, variant, ds10, ds20, ds60, params, roi, select_bands, validated,
                   again, NameVars, data10, data20, data60, out_dims, profile, written>>

\* p = self.update(d1, data10.shape, sr_final, xmin, ymin)
Update ==
    /\ pc = "update"
    /\ out_dims' = update_out_dims(data10.shape, sr_final)
    /\ profile' = update(ds10, data10.shape, sr_final, roi[1], roi[2])
    /\ pc' = "save"
    /\ UNCHANGED <<PixelVars, ProcessVars, variant, ds10, ds20, ds60, params, roi, select_bands, validated,
                   again, NameVars, data10, data20, data60, sr20, sr60, sr_final,
                   validated_sr_final_bands, written>>

\* save_result(sr, validated_sr_bands, validated_desc_all, profile, ...): the
\* helper is outside the repository's sources; it writes channel k of the model
\* output as band k, described by the k-th code
SaveResult ==
    /\ pc = "save"
    /\ written' = [k \in 1..Len(validated_sr_final_bands) |->
                      [code |-> validated_sr_final_bands[k],
                       channel |-> sr_final.channels[k]]]
    /\ pc' = "done"
    /\ UNCHANGED <<PixelVars, ProcessVars, variant, ds10, ds20, ds60, params, roi, select_bands, validated,
                   again, NameVars, data10, data20, data60, sr20, sr60, sr_final,
                   validated_sr_final_bands, out_dims, profile>>

\* the script's two model calls; data60 is a name the script has not bound
\* when --run_60 was not given
ScriptModel ==
    /\ pc = "model"
    /\ variant = "script"
    /\ LET with60 == /\ validated["60m"].bands # <<>>
                     /\ validated["20m"].bands # <<>>
                     /\ validated["10m"].bands # <<>>
           with20 == validated["10m"].bands # <<>> /\ validated["20m"].bands # <<>>
       IN  IF with60 /\ data60 = None
           THEN /\ pc' = "raised_NameError"
                /\ UNCHANGED <<sr20, sr60>>
           ELSE /\ sr60' = IF with60 THEN DSen2_60(data10, data20, data60) ELSE None
                /\ sr20' = IF with20 THEN DSen2_20(data10, data20) ELSE None
                /\ pc' = IF with20 THEN "write" ELSE "exit_no_sr"
    /\ UNCHANGED <<PixelVars, ProcessVars, variant, ds10, ds20, ds60, params, roi, select_bands, validated,
                   again, NameVars, data10, data20, data60, sr_final,
                   validated_sr_final_bands, out_dims, profile, written>>

\* the bands the script's loop writes before it stops: band bi + 1 is
\* sr20[:, :, bi]; the index must exist in sr20 and the band in the opened file
ScriptWritable(bands, array, file_count) ==
    LET ok == {n \in 0..Len(bands) : n <= Len(array.channels) /\ n <= file_count}
        n == CHOOSE n \in ok : \A o \in ok : o <= n
    IN  [k \in 1..n |-> [code |-> bands[k], channel |-> array.channels[k]]]

\* the script's concatenation, out_dims and write loop
ScriptWrite ==
    /\ pc = "write"
    /\ LET sr == IF sr60 # None THEN concatenate(sr20, sr60) ELSE sr20
           bands == IF sr60 # None
                    THEN validated["20m"].bands \o validated["60m"].bands
                    ELSE validated["20m"].bands
           done == ScriptWritable(bands, sr20, profile_of(ds10).count)
       IN  /\ sr_final' = sr
           /\ validated_sr_final_bands' = bands
           /\ out_dims' = IF params.copy_original_bands
                          THEN data10.shape[3] + sr.shape[3]
                          ELSE sr.shape[3]
           /\ profile' = profile_of(ds10)
           /\ written' = done
           /\ pc' = IF Len(done) = Len(bands) THEN "done"
                    ELSE IF Len(done) >= Len(sr20.channels) THEN "raised_IndexError"
                         ELSE "raised_write"
    /\ UNCHANGED <<PixelVars, ProcessVars, variant, ds10, ds20, ds60, params, roi, select_bands, validated,
                   again, NameVars, data10, data20, data60, sr20, sr60>>

NextRun ==
    \/ AreaOfInterest
    \/ CheckRegion
    \/ Validate10
    \/ Validate20
    \/ Validate60
    \/ DataFinal10
    \/ DataFinal20
    \/ DataFinal60
    \/ Model
    \/ Update
    \/ SaveResult
    \/ ScriptModel
    \/ ScriptWrite

SpecRun == InitRun /\ [][NextRun]_vars

(***************************************************************************)
(* Claims about a run (checked under SpecRun)                              *)
(***************************************************************************)
DataAt(r) ==
    CASE r = "10m" -> data10
      [] r = "20m" -> data20
      [] r = "60m" -> data60
ScaleOf(r) ==
    CASE r = "10m" -> 1
      [] r = "20m" -> 2
      [] r = "60m" -> 6
\* the three rasters have been scanned
AfterPass ==
    pc \notin {"start", "roi", "exit_invalid", "validate10", "validate20", "validate60"}
\* validate matched no band at the resolution r
NoBandsAt(r) == AfterPass /\ validated[r].bands = <<>>
RaisedStates ==
    {"raised_UnboundLocalError", "raised_read", "raised_NameError",
     "raised_IndexError", "raised_write"}
\* the channel of the model output made from band i of the raster of resolution r
SrOf(r, i) == [sr |-> [raster |-> r, band |-> i]]

\* the region was resolved by get_max_min and holds at least one pixel: it
\* lies in the raster, on the 60m grid
ValidWindow ==
    /\ roi # None
    /\ 0 <= roi[1] /\ roi[1] <= roi[3] /\ roi[3] <= ds10.width - 1
    /\ 0 <= roi[2] /\ roi[2] <= roi[4] /\ roi[4] <= ds10.height - 1
    /\ roi[1] % 6 = 0 /\ (roi[3] + 1) % 6 = 0
    /\ roi[2] % 6 = 0 /\ (roi[4] + 1) % 6 = 0

\* C14: for every valid resolved window and each scale s in {1,2,6} the window
\* run_model reads from that resolution's raster has column offset x_min//s,
\* row offset y_min//s, width (x_max-x_min+s)//s and height (y_max-y_min+s)//s;
\* so the three windows cover the same ground: width_10m = 2*width_20m =
\* 6*width_60m, and the same for the heights.
C14_WindowsDivideEvenly ==
    ValidWindow =>
        /\ \A r \in Resolutions :
            DataAt(r) # None =>
                DataAt(r).requested =
                    Window(FloorDiv(roi[1], ScaleOf(r)), FloorDiv(roi[2], ScaleOf(r)),
                           FloorDiv(roi[3] - roi[1] + ScaleOf(r), ScaleOf(r)),
                           FloorDiv(roi[4] - roi[2] + ScaleOf(r), ScaleOf(r)))
        /\ (data10 # None /\ data20 # None) =>
            /\ data10.requested[3] = 2 * data20.requested[3]
            /\ data10.requested[4] = 2 * data20.requested[4]
        /\ (data10 # None /\ data60 # None) =>
            /\ data10.requested[3] = 6 * data60.requested[3]
            /\ data10.requested[4] = 6 * data60.requested[4]

\* C15: for a non-empty list of matched indices and a window
\* (x_mi,y_mi,x_ma,y_ma) inside the raster, data_final at scale 1 returns an
\* array of shape (y_ma-y_mi+1, x_ma-x_mi+1, len(matched_indices)) whose channel
\* k holds the raster band matched_indices[k] (band axis last, in matched
\* order); for the window (0,0,5,5) with 4 indices the shape is (6,6,4).
C15_ExtractShape ==
    (data10 # None /\ InsideRaster(data10.requested, ds10)) =>
        LET term == validated["10m"].indices
        IN  /\ term # <<>>
            /\ data10.shape = <<roi[4] - roi[2] + 1, roi[3] - roi[1] + 1, Len(term)>>
            /\ Len(data10.channels) = Len(term)
            /\ \A k \in 1..Len(term) :
                data10.channels[k] = [raster |-> "10m", band |-> term[k]]
            /\ (<<roi[1], roi[2], roi[3], roi[4]>> = <<0, 0, 5, 5>> /\ Len(term) = 4) =>
                data10.shape = <<6, 6, 4>>
C15_Witness ==
    /\ data10 # None
    /\ <<roi[1], roi[2], roi[3], roi[4]>> = <<0, 0, 5, 5>>
    /\ ds10.descriptions = Desc10
    /\ validated["10m"].indices = <<0, 1, 2, 3>>
    /\ data10.shape = <<6, 6, 4>>
    /\ data10.channels[3] = [raster |-> "10m", band |-> 2]

\* C16: when validate matches no bands at some resolution (10m, 20m or 60m)
\* the run treats this as a skip: data_final is not called for that resolution
\* with the empty index list, the DSen2 model functions are never invoked on
\* data of that resolution, no exception is raised, and the run ends through
\* the 'No super-resolution performed' path without building an output profile.
C16_EmptyIsSkipped ==
    (\E r \in Resolutions : NoBandsAt(r)) =>
        /\ pc \notin RaisedStates
        /\ \A r \in Resolutions : NoBandsAt(r) => DataAt(r) = None
        /\ NoBandsAt("60m") => sr60 = None
        /\ (NoBandsAt("10m") \/ NoBandsAt("20m")) => sr20 = None /\ sr60 = None
        /\ pc \notin {"update", "save", "write", "done"}
        /\ profile = None

\* copy_original_bands is set, in the parameters of predict or the arguments
\* of the script
CopyOriginalBands ==
    IF variant = "predict" THEN params.copy_original_bands = "yes"
    ELSE params.copy_original_bands

\* C17: the band count of the output profile equals the channel count of the
\* model output when copy_original_bands is not set, and the channel count of
\* the model output plus the band count of the extracted 10m window when it is.
C17_BandCount ==
    profile # None =>
        profile.count =
            IF CopyOriginalBands THEN sr_final.shape[3] + data10.shape[3]
            ELSE sr_final.shape[3]

\* the profile was built by update
Updated == profile # None /\ variant = "predict"

\* C18: the output transform built by update is the 10m transform composed
\* with a translation by the origin (x_min,y_min) of the extracted window:
\* output pixel (0,0) maps to the world coordinates of source pixel
\* (x_min,y_min) and the coefficients a, b, d, e are unchanged, so the pixel size
\* is the 10m raster's (10 and -10 for a north-up 10m source).
C18_TranslatedTransform ==
    Updated =>
        LET s == ds10.transform
            t == profile.transform
            x == data10.requested[1]
            y == data10.requested[2]
        IN  /\ x = roi[1] /\ y = roi[2]
            /\ t[1] = s[1] /\ t[2] = s[2] /\ t[4] = s[4] /\ t[5] = s[5]
            /\ t[3] = s[1] * x + s[2] * y + s[3]
            /\ t[6] = s[4] * x + s[5] * y + s[6]
            /\ s = Transform(10) => t[1] = 10 /\ t[5] = -10
C18_Witness ==
    /\ Updated
    /\ ds10.transform = <<10, 2, 500, 1, -10, 100>>
    /\ roi[1] = 6 /\ roi[2] = 6
    /\ profile.transform = <<10, 2, 572, 1, -10, 46>>

\* C19: in every run that reaches update the width of the output profile is
\* x_max-x_min+1 and its height y_max-y_min+1 of the resolved region, the pixel
\* extent of the extracted 10m window.
C19_ProfileExtent ==
    Updated =>
        /\ profile.width = roi[3] - roi[1] + 1
        /\ profile.height = roi[4] - roi[2] + 1
        /\ profile.width = data10.shape[2]
        /\ profile.height = data10.shape[1]

\* the writer has been handed the super-resolved bands
Handed == written # None

\* C20: the list of super-resolved band codes handed to the writer is the
\* reconciled 20m codes followed by the reconciled 60m codes, its length is the
\* channel count of the concatenated model output, and channel k of the written
\* output carries the super-resolved data of the k-th code (for a full scene:
\* B5,B6,B7,B8A,B11,B12,B1,B9).
C20_WrittenBands ==
    Handed =>
        LET b20 == validated["20m"]
            b60 == validated["60m"]
            n20 == Len(b20.bands)
        IN  /\ validated_sr_final_bands = b20.bands \o b60.bands
            /\ Len(validated_sr_final_bands) = sr_final.shape[3]
            /\ Len(written) = Len(validated_sr_final_bands)
            /\ \A k \in 1..Len(written) :
                /\ written[k].code = validated_sr_final_bands[k]
                /\ written[k].channel =
                       IF k <= n20 THEN SrOf("20m", b20.indices[k])
                       ELSE SrOf("60m", b60.indices[k - n20])
            /\ (/\ ds10.descriptions = Desc10
                /\ ds20.descriptions = Desc20
                /\ ds60.descriptions = Desc60) =>
                    validated_sr_final_bands =
                        <<<<"B", "5">>, <<"B", "6">>, <<"B", "7">>, <<"B", "8", "A">>,
                          <<"B", "1", "1">>, <<"B", "1", "2">>, <<"B", "1">>, <<"B", "9">>>>

\* the resolved window is empty on some axis
InvalidRegion == roi # None /\ (roi[3] < roi[1] \/ roi[4] < roi[2])
\* nothing was reconciled, extracted, super-resolved, profiled or written
NothingDone ==
    /\ \A r \in Resolutions : validated[r] = None
    /\ data10 = None /\ data20 = None /\ data60 = None
    /\ sr20 = None /\ sr60 = None /\ sr_final = None
    /\ out_dims = None /\ profile = None /\ written = None
\* a DSen2 model function has been called
ModelInvoked == sr20 # None \/ sr60 # None

\* C21: if the resolved window has x_max < x_min or y_max < y_min the run stops
\* before any band reconciliation, window extraction, model invocation or
\* output-profile construction, and no output is produced; conversely, in every
\* run where the model is invoked, x_max >= x_min and y_max >= y_min.
C21_InvalidRegionStops ==
    /\ InvalidRegion => (pc \in {"roi", "exit_invalid"} /\ NothingDone)
    /\ ModelInvoked => (roi[3] >= roi[1] /\ roi[4] >= roi[2])
C21_Witness ==
    /\ pc = "exit_invalid"
    /\ InvalidRegion
    /\ NothingDone

(***************************************************************************)
(* process of the block (src/src/s2_tiles_supres.py): the parameters are   *)
(* checked, then every feature of the input collection is handed to the    *)
(* inference step (a subprocess), then data.json is written.               *)
(***************************************************************************)
MaxFeatures == 2        \* an input collection has at most MaxFeatures features
MaxReturnCode == 7      \* the inference step returns a code in 0..MaxReturnCode

\* the values of bbox, contains and intersects: null, an empty value ([] or {}),
\* a value with content
EmptyValue == [length |-> 0]
FilledValue == [length |-> 4]
QueryValues == {None, EmptyValue, FilledValue}
\* Python's truth value of a query value
Truthy(v) == v # None /\ v.length > 0

\* the members of blockutils' enum SupportedErrors and their values
SupportedErrors ==
    {<<"INPUT_PARAMETERS_ERROR", 2>>, <<"NO_INPUT_ERROR", 3>>, <<"WRONG_INPUT_ERROR", 4>>,
     <<"API_CONNECTION_ERROR", 5>>, <<"NO_OUTPUT_ERROR", 6>>}
\* SupportedErrors(value) finds a member (it raises ValueError otherwise)
IsSupportedError(value) == \E e \in SupportedErrors : e[2] = value
\* SupportedErrors(value): the member with that value
SupportedErrorOf(value) == (CHOOSE e \in SupportedErrors : e[2] = value)[1]

UP42Error(error, by) == [type |-> "UP42Error", error |-> error, by |-> by]

\* assert_input_params: the exception it raises, None when it returns
assert_input_params(p) ==
    IF ~p.clip_to_aoi
    THEN IF Truthy(p.bbox) \/ Truthy(p.contains) \/ Truthy(p.intersects)
         THEN UP42Error("INPUT_PARAMETERS_ERROR", "assert_input_params")
         ELSE None
    ELSE IF p.bbox = None /\ p.contains = None /\ p.intersects = None
         THEN UP42Error("INPUT_PARAMETERS_ERROR", "assert_input_params")
         ELSE None

\* what the handler of CalledProcessError raises for a return code:
\* UP42Error(SupportedErrors(e.returncode)), or the ValueError of the enum
inference_error(returncode) ==
    IF IsSupportedError(returncode)
    THEN UP42Error(SupportedErrorOf(returncode), "process")
    ELSE [type |-> "ValueError", error |-> None, by |-> "process"]

ReturnCodes == 0..MaxReturnCode
RECURSIVE SeqsUpTo(_, _)
SeqsUpTo(S, n) ==
    IF n = 0 THEN {<<>>}
    ELSE SeqsUpTo(S, n - 1) \cup {Append(s, x) : s \in SeqsUpTo(S, n - 1), x \in S}
\* the input collections: feature i is given by the code the inference step
\* returns for it
FeatureCollections == SeqsUpTo(ReturnCodes, MaxFeatures)
\* the parameters after __init__, which sets clip_to_aoi to False when absent
ProcessParams ==
    [clip_to_aoi : BOOLEAN, bbox : QueryValues, contains : QueryValues,
     intersects : QueryValues]

InitProcess ==
    /\ variant = "block"
    /\ params \in ProcessParams
    /\ input_fc \in FeatureCollections
    /\ pc = "process"
    /\ inferred = <<>>
    /\ raised = None
    /\ data_json = <<>>
    /\ ds10 = None /\ ds20 = None /\ ds60 = None
    /\ roi = None
    /\ select_bands = None
    /\ validated = None
    /\ again = None
    /\ NoNames
    /\ NoRun
    /\ NoPixels

\* self.assert_input_params() and self.get_final_json()
AssertInputParams ==
    /\ pc = "process"
    /\ IF assert_input_params(params) # None
       THEN /\ raised' = assert_input_params(params)
            /\ pc' = "raised"
       ELSE /\ pc' = "features"
            /\ UNCHANGED raised
    /\ UNCHANGED <<PixelVars, variant, ds10, ds20, ds60, params, roi, select_bands, validated,
                   again, NameVars, RunVars, input_fc, inferred, data_json>>

\* one turn of the loop: subprocess.run(..., check=True) on the next feature
Inference ==
    /\ pc = "features"
    /\ Len(inferred) < Len(input_fc)
    /\ LET i == Len(inferred) + 1
           returncode == input_fc[i]
       IN  /\ inferred' = Append(inferred, i)
           /\ IF returncode # 0
              THEN /\ raised' = inference_error(returncode)
                   /\ pc' = "raised"
              ELSE UNCHANGED <<raised, pc>>
    /\ UNCHANGED <<PixelVars, variant, ds10, ds20, ds60, params, roi, select_bands, validated,
                   again, NameVars, RunVars, input_fc, data_json>>

\* the loop is over: self.save_output_json(output_jsonfile, self.output_dir)
SaveOutputJson ==
    /\ pc = "features"
    /\ Len(inferred) = Len(input_fc)
    /\ data_json' = Append(data_json, "output_jsonfile")
    /\ pc' = "done"
    /\ UNCHANGED <<PixelVars, variant, ds10, ds20, ds60, params, roi, select_bands, validated,
                   again, NameVars, RunVars, input_fc, inferred, raised>>

NextProcess ==
    \/ AssertInputParams
    \/ Inference
    \/ SaveOutputJson

SpecProcess == InitProcess /\ [][NextProcess]_vars

(***************************************************************************)
(* Claims about process (checked under SpecProcess)                        *)
(***************************************************************************)
\* every feature of the collection went through inference with return code 0
AllSucceeded ==
    /\ Len(inferred) = Len(input_fc)
    /\ \A i \in 1..Len(input_fc) : input_fc[i] = 0

\* C22: when the inference step fails for some feature (non-zero return code)
\* process raises an UP42Error carrying the error kind derived from that return
\* code, no later feature is handed to inference and data.json is not written;
\* data.json is written exactly once, and only after inference has succeeded
\* for every feature of the input collection.
C22_InferenceFailurePropagates ==
    /\ \A k \in 1..Len(inferred) :
        input_fc[inferred[k]] # 0 =>
            /\ pc = "raised"
            /\ raised.type = "UP42Error"
            /\ raised.by = "process"
            /\ IsSupportedError(input_fc[inferred[k]])
            /\ raised.error = SupportedErrorOf(input_fc[inferred[k]])
            /\ Len(inferred) = k
            /\ data_json = <<>>
    /\ Len(data_json) <= 1
    /\ data_json # <<>> => AllSucceeded
    /\ pc = "done" => Len(data_json) = 1

\* bbox, contains or intersects is set: it is not null
IsSet(v) == v # None
AnyQuerySet == IsSet(params.bbox) \/ IsSet(params.contains) \/ IsSet(params.intersects)
\* the parameter combinations the claim rejects
RejectedParams ==
    \/ ~params.clip_to_aoi /\ AnyQuerySet
    \/ params.clip_to_aoi /\ ~AnyQuerySet
RaisedByAssert == raised # None /\ raised.by = "assert_input_params"

\* C26: process validates the parameters before doing anything else: if
\* clip_to_aoi is false and any of bbox, contains or intersects is set, or if
\* clip_to_aoi is true and none of them is set, process raises an
\* INPUT_PARAMETERS_ERROR before any inference subprocess is started and before
\* data.json is written; in all other combinations assert_input_params raises
\* nothing.
C26_ParamsValidatedFirst ==
    /\ RejectedParams =>
        \/ pc = "process"
        \/ /\ pc = "raised"
           /\ raised = UP42Error("INPUT_PARAMETERS_ERROR", "assert_input_params")
           /\ inferred = <<>>
           /\ data_json = <<>>
    /\ ~RejectedParams => ~RaisedByAssert

(***************************************************************************)
(* Claims about to_xy (checked under SpecRegion and SpecPixels)            *)
(***************************************************************************)
\* the pixel of a longitude and latitude when the projection targets the
\* coordinate reference system of the raster itself
PixelInOwnCrs(lon, lat, data) ==
    LET p == proj_transform(data.crs, lon, lat)
    IN  pixel_of(p[1], p[2], data)

\* C23: to_xy projects the longitude and latitude into the coordinate
\* reference system of the raster it is given: the target of the projection is
\* the raster's own CRS identifier (get_utm returns 'epsg:32640' for a raster in
\* EPSG:32640), for every raster and not a fixed zone.
C23_ProjectsIntoRasterCrs ==
    GeoRoi =>
        LET g == params.roi_lon_lat
        IN  /\ get_utm(ds10) = ds10.crs
            /\ ds10.crs = "epsg:32640" => get_utm(ds10) = "epsg:32640"
            /\ <<CornerPoints[1], CornerPoints[2]>> = PixelInOwnCrs(g[1], g[2], ds10)
            /\ <<CornerPoints[3], CornerPoints[4]>> = PixelInOwnCrs(g[3], g[4], ds10)

(***************************************************************************)
(* The affine inversion of to_xy taken alone: a projected point is mapped  *)
(* to a pixel of a raster with a given transform.                          *)
(***************************************************************************)
MaxPixel == 3       \* pixels range over -MaxPixel..MaxPixel on both axes

Pixels == (-MaxPixel)..MaxPixel
\* the coefficients a, b, d, e: north-up rasters of 10, 20 and 60 metres,
\* rasters with other pixel sizes, sheared and mirrored ones
LinearParts ==
    {<<10, 0, 0, -10>>, <<20, 0, 0, -20>>, <<60, 0, 0, -60>>,
     <<7, 0, 0, 7>>, <<3, 0, 0, -3>>, <<1, 0, 0, 1>>,
     <<10, 2, 1, -10>>, <<0, 7, 7, 0>>}
Origins == {<<0, 0>>, <<500, 100>>}
PixelTransforms ==
    {<<l[1], l[2], o[1], l[3], l[4], o[2]>> : l \in LinearParts, o \in Origins}
\* the world coordinates of the corner of pixel (px, py)
Forward(t, px, py) == <<t[1] * px + t[2] * py + t[3], t[4] * px + t[5] * py + t[6]>>
\* displacements from a pixel corner, in world units
Displacements == {-2, 0, 1}
WorldPoints(t) ==
    {<<Forward(t, px, py)[1] + dx, Forward(t, px, py)[2] + dy>> :
        px \in Pixels, py \in Pixels, dx \in Displacements, dy \in Displacements}

InitPixels ==
    /\ variant \in {"predict", "block"}
    /\ \E t \in PixelTransforms :
        /\ ds10 = [Raster(20, 18, 10, Desc10) EXCEPT !.transform = t]
        /\ world \in WorldPoints(t)
    /\ xy = None
    /\ pc = "to_xy"
    /\ ds20 = None /\ ds60 = None
    /\ params = None
    /\ roi = None
    /\ select_bands = None
    /\ validated = None
    /\ again = None
    /\ NoNames
    /\ NoRun
    /\ NoProcess

\* the second half of to_xy: xp -= xoff ... return int(x), int(y)
Invert ==
    /\ pc = "to_xy"
    /\ xy' = pixel_of(world[1], world[2], ds10)
    /\ pc' = "pixel"
    /\ UNCHANGED <<variant, ds10, ds20, ds60, params, roi, select_bands, validated,
                   again, NameVars, RunVars, ProcessVars, world>>

NextPixels == Invert

SpecPixels == InitPixels /\ [][NextPixels]_vars

\* the inversion has returned
Inverted == pc = "pixel"
\* the numerators and the determinant of the fractional pixel coordinates of
\* the point: x = NumX / Det, y = NumY / Det
Det == ds10.transform[1] * ds10.transform[5] - ds10.transform[4] * ds10.transform[2]
NumX ==
    ds10.transform[5] * (world[1] - ds10.transform[3])
    - ds10.transform[2] * (world[2] - ds10.transform[6])
NumY ==
    ds10.transform[1] * (world[2] - ds10.transform[6])
    - ds10.transform[4] * (world[1] - ds10.transform[3])
\* n / det lies strictly between -1 and 0
BetweenMinusOneAndZero(n, det) ==
    /\ Abs(n) < Abs(det)
    /\ (n < 0 /\ det > 0) \/ (n > 0 /\ det < 0)
\* the claim's statement on the rasters in T
InvertsExactly(T) ==
    (Inverted /\ ds10.transform \in T) =>
        /\ \A px \in Pixels, py \in Pixels :
            world = Forward(ds10.transform, px, py) => xy = <<px, py>>
        /\ BetweenMinusOneAndZero(NumX, Det) => xy[1] = 0
        /\ BetweenMinusOneAndZero(NumY, Det) => xy[2] = 0
\* the transforms of Sentinel-2 rasters: north-up, pixels of 10, 20 or 60 metres
SentinelTransforms ==
    {t \in PixelTransforms :
        /\ t[1] \in {10, 20, 60} /\ t[5] = -t[1]
        /\ t[2] = 0 /\ t[4] = 0}

\* C24: the affine inversion of to_xy is the exact inverse of the raster
\* transform on pixel corners: for every transform with non-zero determinant and
\* every integer pixel (px,py), the point (a*px + b*py + xoff, d*px + e*py + yoff)
\* is mapped back to (px,py); fractional pixel coordinates are truncated toward
\* zero, so a coordinate strictly between -1 and 0 is reported as pixel 0.
C24_ExactInverse == InvertsExactly(PixelTransforms)
\* C24 as amended: the same, for the transforms of Sentinel-2 rasters (north-up,
\* pixel size 10, 20 or 60).
C24_ExactInverseOnSentinel == InvertsExactly(SentinelTransforms)
C24_Witness ==
    /\ Inverted
    /\ ds10.transform = <<10, 0, 500, 0, -10, 100>>
    /\ world = <<498, 80>>
    /\ BetweenMinusOneAndZero(NumX, Det)
    /\ world[2] = Forward(ds10.transform, 0, 2)[2]
    /\ xy = <<0, 2>>

(***************************************************************************)
(* Further claims about validate (checked under SpecBands)                 *)
(***************************************************************************)
\* the short code of the band at a 0-based index of a raster
ShortCodeAt(data, i) == get_band_short_name(NormalizedAt(data, i))

\* C25: within a single validate call no code appears twice in codes: when
\* several bands of the same raster have the same short code, only the first
\* one in scan order is recorded (its index and description), and the later
\* ones are ignored.
C25_FirstBandOfACode ==
    \A r \in Results :
        LET res == validated[r]
            data == RasterAt(r)
        IN  /\ \A j \in 1..Len(res.bands), k \in 1..Len(res.bands) :
                j # k => res.bands[j] # res.bands[k]
            /\ \A k \in 1..Len(res.bands) :
                /\ ShortCodeAt(data, res.indices[k]) = res.bands[k]
                /\ \A i \in 0..(res.indices[k] - 1) :
                    ShortCodeAt(data, i) # res.bands[k]
                /\ res.descriptions[res.bands[k]] = NormalizedAt(data, res.indices[k])
C25_Witness ==
    /\ validated["10m"] # None
    /\ ds10.descriptions = <<D_B8A, N_B2, D_B2>>
    /\ validated["10m"].bands = <<<<"B", "8", "A">>, <<"B", "2">>>>
    /\ validated["10m"].indices = <<0, 1>>
    /\ validated["10m"].descriptions[<<"B", "2">>] = N_B2

(***************************************************************************)
(* Further claims about get_max_min (checked under SpecRegion)             *)
(***************************************************************************)
\* the region was resolved by get_max_min
FromGetMaxMin == PixelRoi \/ GeoRoi
\* the clamped corners fall into the same 60m tile boundary on some axis
NoTileOnSomeAxis ==
    \/ FloorDiv(CMinX, 6) = FloorDiv(CMaxX + 1, 6)
    \/ FloorDiv(CMinY, 6) = FloorDiv(CMaxY + 1, 6)

\* C27: the area returned by get_max_min is never negative: x_max-x_min+1 >= 0
\* and y_max-y_min+1 >= 0 for all inputs, and the invalid-region test of
\* run_model (x_max < x_min or y_max < y_min) holds exactly when the returned
\* area is 0, which happens exactly when, on some axis, the clamped minimum
\* c_min and the clamped maximum c_max satisfy floor(c_min/6) = floor((c_max+1)/6).
C27_AreaNeverNegative ==
    FromGetMaxMin =>
        /\ RoiWidth >= 0
        /\ RoiHeight >= 0
        /\ roi[5] >= 0
        /\ (roi[3] < roi[1] \/ roi[4] < roi[2]) <=> (roi[5] = 0)
        /\ (roi[5] = 0) <=> NoTileOnSomeAxis
C27_Witness ==
    /\ PixelRoi
    /\ params.roi_x_y = <<1, 2, 4, 6>>
    /\ roi = <<0, 0, -1, 5, 0>>
    /\ NoTileOnSomeAxis
==========================================================================
